---- MODULE Spec2Model ----
(***************************************************************************)
(* Model of src/components/warehouse/ProductHistory.tsx: the movement feed *)
(* (a live query on the productMovements collection, normalised and sorted *)
(* in the snapshot callback) and the delete workflow (password prompt,     *)
(* then one write batch that restores the product and deletes the          *)
(* movement document).                                                     *)
(***************************************************************************)
EXTENDS Integers, Sequences, FiniteSets, TLC

\* ------------------------------------------------------------------ bounds
\* Number of movement documents ever created in the store.
MaxMovements == 2
\* Number of handleDelete(true) invocations that reach the commit.
MaxDeletes == 1
\* Number of stock changes in the runs of the delete workflow (SpecDelete).
MaxStock == 1
\* Number of handleDelete(true) invocations in the runs with several deletes
\* and several movements of one product (SpecDeleteWide).
MaxInFlight == 2
\* Timestamps of movement documents have seconds in -1..MaxSeconds.
MaxSeconds == 1

ProductIds == {"p1", "p2"}
MovementIds == 1..MaxMovements
Seconds == -1..MaxSeconds

\* The value of doc.data().date: a Timestamp {seconds} or missing (null/undefined).
NoDate == [has |-> FALSE, seconds |-> 0]
Timestamp(s) == [has |-> TRUE, seconds |-> s]
Dates == {NoDate} \cup {Timestamp(s) : s \in Seconds}

\* ------------------------------------------------------------ pure functions

\* Movement (lines 12-26) as built by the map callback of lines 79-83:
\* {id: doc.id, ...doc.data(), date: doc.data().date}.
Normalize(d) ==
    [id                   |-> d.id,
     productId            |-> d.data.productId,
     type                 |-> d.data.type,
     date                 |-> d.data.date,
     previousQuantity     |-> d.data.previousQuantity,
     newQuantity          |-> d.data.newQuantity,
     previousAveragePrice |-> d.data.previousAveragePrice,
     newAveragePrice      |-> d.data.newAveragePrice]

\* a.date?.seconds || 0 (lines 87-88): a missing date and seconds = 0 both give 0.
SortKey(m) == IF m.date.has /\ m.date.seconds # 0 THEN m.date.seconds ELSE 0

\* The comparator of lines 86-90: dateB - dateA.
Compare(a, b) == SortKey(b) - SortKey(a)

\* Array.prototype.sort is stable: x goes after every element that does not
\* compare greater than it.
RECURSIVE InsertSorted(_, _)
InsertSorted(x, s) ==
    IF s = <<>> THEN <<x>>
    ELSE IF Compare(Head(s), x) <= 0 THEN <<Head(s)>> \o InsertSorted(x, Tail(s))
    ELSE <<x>> \o s

RECURSIVE SortMovements(_)
SortMovements(s) ==
    IF s = <<>> THEN <<>>
    ELSE InsertSorted(s[Len(s)], SortMovements(SubSeq(s, 1, Len(s) - 1)))

\* The documents matching where('productId', '==', pid) (lines 72-75).
QueryDocs(docs, pid) == {d \in docs : d.data.productId = pid}

\* snapshot.docs: without orderBy the query returns documents by ascending id.
RECURSIVE DocsInOrder(_)
DocsInOrder(docs) ==
    IF docs = {} THEN <<>>
    ELSE LET first == CHOOSE d \in docs : \A e \in docs : d.id <= e.id
         IN  <<first>> \o DocsInOrder(docs \ {first})

\* snapshot.docs.map(...) of lines 79-83.
MapNormalize(s) == [i \in 1..Len(s) |-> Normalize(s[i])]

\* Whether the try block of lines 78-92 throws: some record cannot be normalised.
Throws(docs) == \E d \in docs : d.data.malformed

Range(s) == {s[i] : i \in 1..Len(s)}


\* -------------------------------------------------------------------- state
VARIABLES
    products,          \* the products collection: id -> [quantity, averagePurchasePrice, unit]
    productMovements,  \* the productMovements collection: a set of [id, data]
    nextId,            \* next fresh document id of productMovements
    mounted,           \* the component instance exists
    isOpen,            \* prop isOpen (line 35)
    product,           \* prop product.id (line 37)
    movements,         \* useState<Movement[]>([]) (line 39)
    loading,           \* useState(true) (line 40)
    showPasswordPrompt,\* useState(false) (line 41)
    selectedMovement,  \* useState<Movement | null>(null) (line 42): <<>> is null
    swipedMovementId,  \* useState<string | null>(null) (line 43): 0 is null
    listeners,         \* onSnapshot listeners not yet unsubscribed: [pid, dead]
    lastEvent,         \* last listener callback of this instance: none/next/threw/error
    lastSnap,          \* snapshot.docs (as a set) handed to the last success callback
    firstEvent,        \* first listener callback of this instance
    closed,            \* the list published when the view was last closed
    feedLog,           \* console.error message of the last listener callback, or "none"
    uncaught,          \* an exception escaped a listener callback
    batches,           \* the handleDelete(true) invocations that built a write batch
    lastGate           \* how the password gate last ended: none/declined/authenticated

vars == <<products, productMovements, nextId, mounted, isOpen, product, movements,
          loading, showPasswordPrompt, selectedMovement, swipedMovementId,
          listeners, lastEvent, lastSnap, firstEvent, closed, feedLog,
          uncaught, batches, lastGate>>

storeVars == <<products, productMovements, nextId>>
propVars  == <<mounted, isOpen, product>>
feedVars  == <<movements, loading, lastEvent, lastSnap, firstEvent, feedLog, uncaught>>
uiVars    == <<showPasswordPrompt, selectedMovement, swipedMovementId>>
deleteVars == <<batches, lastGate>>

NoMovement == <<>>
NoSwipe == 0
NoClose == [phase |-> "none", pid |-> "", list |-> <<>>, data |-> {}, resub |-> FALSE]

Init ==
    /\ products = [p \in ProductIds |-> [quantity |-> 1, averagePurchasePrice |-> 1, unit |-> "kg"]]
    /\ productMovements = {}
    /\ nextId = 1
    /\ mounted = TRUE
    /\ isOpen = TRUE
    /\ product = "p1"
    /\ movements = <<>>
    /\ loading = TRUE
    /\ showPasswordPrompt = FALSE
    /\ selectedMovement = NoMovement
    /\ swipedMovementId = NoSwipe
    /\ listeners = {[pid |-> "p1", dead |-> FALSE]}
    /\ lastEvent = "none"
    /\ lastSnap = {}
    /\ firstEvent = "none"
    /\ closed = NoClose
    /\ feedLog = "none"
    /\ uncaught = FALSE
    /\ batches = <<>>
    /\ lastGate = "none"

\* ------------------------------------------------------- the store's writers

\* The external "apply stock change" operation: creates a movement carrying the
\* product's fields before and after, and updates the product, atomically.
ApplyStockChange(p, type, date) ==
    /\ nextId <= MaxMovements
    /\ type = "out" => products[p].quantity >= 1
    /\ LET prevQ == products[p].quantity
           prevA == products[p].averagePurchasePrice
           newQ  == IF type = "in" THEN prevQ + 1 ELSE prevQ - 1
           newA  == IF type = "in" THEN prevA + 1 ELSE prevA
           d == [id |-> nextId,
                 data |-> [productId |-> p, type |-> type, date |-> date,
                           previousQuantity |-> prevQ, newQuantity |-> newQ,
                           previousAveragePrice |-> prevA, newAveragePrice |-> newA,
                           malformed |-> FALSE]]
       IN /\ productMovements' = productMovements \cup {d}
          /\ products' = [products EXCEPT ![p].quantity = newQ,
                                          ![p].averagePurchasePrice = newA]
    /\ nextId' = nextId + 1
    /\ UNCHANGED <<propVars, feedVars, uiVars, listeners, deleteVars, closed>>

\* A document of the collection that the map callback cannot normalise.
WriteMalformed(p) ==
    /\ nextId <= MaxMovements
    /\ productMovements' = productMovements \cup
          {[id |-> nextId,
            data |-> [productId |-> p, type |-> "in", date |-> NoDate,
                      previousQuantity |-> 0, newQuantity |-> 0,
                      previousAveragePrice |-> 0, newAveragePrice |-> 0,
                      malformed |-> TRUE]]}
    /\ nextId' = nextId + 1
    /\ UNCHANGED <<products, propVars, feedVars, uiVars, listeners, deleteVars, closed>>

\* ------------------------------------------------------------ write batches

\* Lines 133-148: the batch built by handleDelete for the selected movement m
\* while the product prop is pid.
NewQuantity(m) == IF m.type = "in" THEN m.previousQuantity ELSE m.previousQuantity

ProductRef(pid, m) == pid

BatchWrites(pid, m) ==
    << [op |-> "update", ref |-> ProductRef(pid, m),
        quantity |-> NewQuantity(m),
        averagePurchasePrice |-> m.previousAveragePrice],
       [op |-> "delete", mid |-> m.id] >>

\* Faulty variant: the update replaces the product document (a set without
\* merge), and the delete removes every record with an id up to the given one.
ApplyWriteReplaces(w, st) ==
    IF w.op = "update"
    THEN [st EXCEPT !.products[w.ref] = [quantity |-> w.quantity,
                                         averagePurchasePrice |-> w.averagePurchasePrice,
                                         unit |-> ""]]
    ELSE [st EXCEPT !.productMovements = {d \in @ : d.id > w.mid}]

\* One write applied to the store st = [products, productMovements].
ApplyWrite(w, st) ==
    IF w.op = "update"
    THEN [st EXCEPT !.products[w.ref].quantity = w.quantity,
                    !.products[w.ref].averagePurchasePrice = w.averagePurchasePrice]
    ELSE [st EXCEPT !.productMovements = {d \in @ : d.id # w.mid}]

RECURSIVE ApplyWrites(_, _)
ApplyWrites(ws, st) ==
    IF ws = <<>> THEN st ELSE ApplyWrites(Tail(ws), ApplyWrite(Head(ws), st))

\* Faulty variant: two separate writes, the second one lost.
CommitWritesFirstOnly(ws, st) == ApplyWrite(Head(ws), st)

\* batch.commit() that succeeds (line 150): every write of the batch, atomically.
CommitWrites(ws, st) == ApplyWrites(ws, st)

Store == [products |-> products, productMovements |-> productMovements]


\* A second client running the same delete (lines 133-150) on document d of
\* its own feed, its product prop being d's product.
OtherClientDelete(d) ==
    /\ d \in productMovements
    /\ ~d.data.malformed
    /\ LET st == CommitWrites(BatchWrites(d.data.productId, Normalize(d)), Store)
       IN /\ products' = st.products
          /\ productMovements' = st.productMovements
    /\ UNCHANGED <<nextId, propVars, feedVars, uiVars, listeners, deleteVars, closed>>

\* ------------------------------------------------- the subscription effect

\* onSnapshot(q, ...) of line 77 for where('productId', '==', pid).
Subscribe(ls, pid) == ls \cup {[pid |-> pid, dead |-> FALSE]}

\* The cleanup of line 104: unsubscribe() of the listener the effect created.
Unsubscribe(ls, pid) == {l \in ls : l.pid # pid}

\* The effect's dependency list (line 105) is [product.id]: a change of isOpen
\* alone does not run the cleanup or the effect.
EffectOnIsOpen(ls, pid, open) == ls

\* What the view published when it is closed: the list of an up-to-date snapshot.
CloseRecord ==
    IF ~loading /\ lastEvent = "next" /\ lastSnap = QueryDocs(productMovements, product)
    THEN [phase |-> "closed", pid |-> product, list |-> movements, data |-> lastSnap,
          resub |-> FALSE]
    ELSE NoClose

\* Component state of an instance that does not exist (and of a fresh one).
FreshState ==
    /\ movements' = <<>>
    /\ loading' = TRUE
    /\ showPasswordPrompt' = FALSE
    /\ selectedMovement' = NoMovement
    /\ swipedMovementId' = NoSwipe
    /\ lastEvent' = "none"
    /\ lastSnap' = {}
    /\ firstEvent' = "none"
    /\ feedLog' = "none"
    /\ uncaught' = FALSE

\* The parent renders the component: state of lines 39-43, effect of lines 71-105.
Mount(p, open) ==
    /\ ~mounted
    /\ mounted' = TRUE
    /\ product' = p
    /\ isOpen' = open
    /\ FreshState
    /\ listeners' = Subscribe(listeners, p)
    /\ closed' = IF closed.phase = "closed" /\ closed.pid = p
                 THEN [closed EXCEPT !.resub = TRUE,
                                     !.phase = IF open THEN "reopened" ELSE "closed"]
                 ELSE NoClose
    /\ UNCHANGED <<storeVars, deleteVars>>

\* The parent removes the component: the cleanup runs, the state is dropped, and
\* the state setters of delete calls still awaiting their commit become no-ops.
Unmount ==
    /\ mounted
    /\ mounted' = FALSE
    /\ FreshState
    /\ listeners' = Unsubscribe(listeners, product)
    /\ batches' = [i \in DOMAIN batches |->
                     IF batches[i].resumed THEN batches[i]
                     ELSE [batches[i] EXCEPT !.orphan = TRUE]]
    /\ closed' = IF isOpen THEN CloseRecord ELSE closed
    /\ UNCHANGED <<storeVars, isOpen, product, lastGate>>

\* The parent changes the isOpen prop; line 107 renders nothing when it is false.
SetIsOpen(open) ==
    /\ mounted
    /\ open # isOpen
    /\ isOpen' = open
    /\ listeners' = EffectOnIsOpen(listeners, product, open)
    /\ closed' = IF ~open THEN CloseRecord
                 ELSE IF closed.phase = "closed" THEN [closed EXCEPT !.phase = "reopened"]
                 ELSE closed
    /\ UNCHANGED <<storeVars, mounted, product, feedVars, uiVars, deleteVars>>

\* The parent passes another product: cleanup of the old listener, new effect.
ChangeProduct(p) ==
    /\ mounted
    /\ p # product
    /\ product' = p
    /\ listeners' = Subscribe(Unsubscribe(listeners, product), p)
    /\ closed' = NoClose
    /\ UNCHANGED <<storeVars, mounted, isOpen, feedVars, uiVars, deleteVars>>

\* ------------------------------------------------------ listener callbacks

\* Faulty variant: the new records are appended to the list instead of replacing it.
OnNextMerged(docs) ==
    IF Throws(docs)
    THEN [movements |-> <<>>, event |-> "threw",
          log |-> "Error processing movements:", uncaught |-> FALSE]
    ELSE [movements |-> movements \o SortMovements(MapNormalize(DocsInOrder(docs))),
          event |-> "next", log |-> "none", uncaught |-> FALSE]

\* Faulty variant: a record that cannot be normalised is skipped, the others are kept.
OnNextSkipsBad(docs) ==
    LET good == {d \in docs : ~d.data.malformed}
    IN  [movements |-> SortMovements(MapNormalize(DocsInOrder(good))),
         event |-> IF Throws(docs) THEN "threw" ELSE "next",
         log |-> IF Throws(docs) THEN "Error processing movements:" ELSE "none",
         uncaught |-> FALSE]

\* The success callback of lines 77-97 on snapshot documents docs (loading aside).
OnNext(docs) ==
    IF Throws(docs)
    THEN [movements |-> <<>>, event |-> "threw",
          log |-> "Error processing movements:", uncaught |-> FALSE]
    ELSE [movements |-> SortMovements(MapNormalize(DocsInOrder(docs))),
          event |-> "next", log |-> "none", uncaught |-> FALSE]

SnapshotNext(l) ==
    /\ mounted
    /\ l \in listeners
    /\ ~l.dead
    /\ LET docs == QueryDocs(productMovements, l.pid)
           r == OnNext(docs)
       IN /\ movements' = r.movements
          /\ lastEvent' = r.event
          /\ feedLog' = r.log
          /\ uncaught' = (uncaught \/ r.uncaught)
          /\ lastSnap' = docs
          /\ firstEvent' = IF firstEvent = "none" THEN r.event ELSE firstEvent
    /\ loading' = FALSE
    /\ UNCHANGED <<storeVars, propVars, uiVars, listeners, deleteVars, closed>>

\* Faulty variant: the error callback forgets setLoading(false).
OnErrorStillLoading == [movements |-> <<>>, loading |-> loading,
                        log |-> "Error in movements subscription:"]

\* The error callback of lines 98-102; the store ends a listener that errored.
OnError == [movements |-> <<>>, loading |-> FALSE,
            log |-> "Error in movements subscription:"]

SnapshotError(l) ==
    /\ mounted
    /\ l \in listeners
    /\ ~l.dead
    /\ listeners' = (listeners \ {l}) \cup {[l EXCEPT !.dead = TRUE]}
    /\ movements' = OnError.movements
    /\ loading' = OnError.loading
    /\ feedLog' = OnError.log
    /\ lastEvent' = "error"
    /\ firstEvent' = IF firstEvent = "none" THEN "error" ELSE firstEvent
    /\ UNCHANGED <<storeVars, propVars, uiVars, lastSnap, uncaught, deleteVars, closed>>

\* ------------------------------------------------------------ the rows' UI

\* Rows are rendered by lines 196-206; the password prompt is modal.
RowsRendered ==
    mounted /\ isOpen /\ ~loading /\ movements # <<>> /\ ~showPasswordPrompt

\* Lines 282-291.
PromptRendered == mounted /\ isOpen /\ showPasswordPrompt

\* Lines 45-51.
handleSwipe(movementId) ==
    /\ RowsRendered
    /\ \E i \in 1..Len(movements) : movements[i].id = movementId
    /\ swipedMovementId' = IF swipedMovementId = movementId THEN NoSwipe ELSE movementId
    /\ UNCHANGED <<storeVars, propVars, feedVars, showPasswordPrompt,
                   selectedMovement, listeners, deleteVars, closed>>

\* Lines 162-165.
handleDeleteClick(movement) ==
    /\ RowsRendered
    /\ movement \in Range(movements)
    /\ selectedMovement' = <<movement>>
    /\ showPasswordPrompt' = TRUE
    /\ lastGate' = "none"
    /\ UNCHANGED <<storeVars, propVars, feedVars, swipedMovementId, listeners, batches, closed>>

\* Lines 285-288.
PromptOnClose ==
    /\ PromptRendered
    /\ showPasswordPrompt' = FALSE
    /\ selectedMovement' = NoMovement
    /\ lastGate' = "declined"
    /\ UNCHANGED <<storeVars, propVars, feedVars, swipedMovementId, listeners, batches, closed>>

\* ------------------------------------------------------- the delete workflow

\* Faulty variant: the guard forgets the result of the gate.
DeclinedIgnoresGate(isAuthenticated, selected) == selected = NoMovement

\* Whether handleDelete returns at lines 126-130.
Declined(isAuthenticated, selected) == ~isAuthenticated \/ selected = NoMovement

\* The invocation record of a handleDelete call that reaches line 132.
NewBatch(pid, m) ==
    [state |-> "inflight", product |-> pid, mov |-> m, writes |-> BatchWrites(pid, m),
     resumed |-> FALSE, success |-> 0, error |-> 0, orphan |-> FALSE]

\* Lines 125-150, up to the await: called by the prompt's onSuccess with true
\* (line 289); false is the declined result of the gate. At most limit calls
\* build a batch in one run.
handleDeleteUpTo(isAuthenticated, limit) ==
    /\ PromptRendered
    /\ IF Declined(isAuthenticated, selectedMovement)
       THEN /\ showPasswordPrompt' = FALSE
            /\ selectedMovement' = NoMovement
            /\ lastGate' = "declined"
            /\ UNCHANGED <<swipedMovementId, batches>>
       ELSE /\ Len(batches) < limit
            /\ batches' = Append(batches, NewBatch(product, selectedMovement[1]))
            /\ lastGate' = "authenticated"
            /\ UNCHANGED uiVars
    /\ UNCHANGED <<storeVars, propVars, feedVars, listeners, closed>>

handleDelete(isAuthenticated) == handleDeleteUpTo(isAuthenticated, MaxDeletes)

\* batch.commit() succeeds: the store applies the batch.
CommitOk(i) ==
    /\ i \in DOMAIN batches
    /\ batches[i].state = "inflight"
    /\ LET st == CommitWrites(batches[i].writes, Store)
       IN /\ products' = st.products
          /\ productMovements' = st.productMovements
    /\ batches' = [batches EXCEPT ![i].state = "committed"]
    /\ UNCHANGED <<nextId, propVars, feedVars, uiVars, listeners, closed, lastGate>>

\* batch.commit() rejects: the store applies nothing.
CommitFail(i) ==
    /\ i \in DOMAIN batches
    /\ batches[i].state = "inflight"
    /\ batches' = [batches EXCEPT ![i].state = "rejected"]
    /\ UNCHANGED <<storeVars, propVars, feedVars, uiVars, listeners, closed, lastGate>>

\* Faulty variant: the success notification is emitted after the catch block too.
NotifyAlsoSuccess(b) ==
    IF b.state = "committed"
    THEN [b EXCEPT !.success = @ + 1, !.resumed = TRUE]
    ELSE [b EXCEPT !.error = @ + 1, !.success = @ + 1, !.resumed = TRUE]

\* Faulty variant: the success notification is emitted in the try block and
\* again in the finally block.
NotifySuccessTwice(b) ==
    IF b.state = "committed"
    THEN [b EXCEPT !.success = @ + 2, !.resumed = TRUE]
    ELSE [b EXCEPT !.error = @ + 1, !.resumed = TRUE]

\* Lines 151-159: the notification of the outcome.
Notify(b) ==
    IF b.state = "committed"
    THEN [b EXCEPT !.success = @ + 1, !.resumed = TRUE]
    ELSE [b EXCEPT !.error = @ + 1, !.resumed = TRUE]

\* Faulty variant: the finally block leaves the revealed row as it is.
ResumeKeepsReveal(i) ==
    /\ i \in DOMAIN batches
    /\ batches[i].state \in {"committed", "rejected"}
    /\ ~batches[i].resumed
    /\ batches' = [batches EXCEPT ![i] = Notify(batches[i])]
    /\ IF batches[i].orphan
       THEN UNCHANGED uiVars
       ELSE /\ showPasswordPrompt' = FALSE
            /\ selectedMovement' = NoMovement
            /\ UNCHANGED swipedMovementId
    /\ UNCHANGED <<storeVars, propVars, feedVars, listeners, closed, lastGate>>

\* The continuation after the await: lines 151 or 153-154, then the finally block.
Resume(i) ==
    /\ i \in DOMAIN batches
    /\ batches[i].state \in {"committed", "rejected"}
    /\ ~batches[i].resumed
    /\ batches' = [batches EXCEPT ![i] = Notify(batches[i])]
    /\ IF batches[i].orphan
       THEN UNCHANGED uiVars
       ELSE /\ showPasswordPrompt' = FALSE
            /\ selectedMovement' = NoMovement
            /\ swipedMovementId' = NoSwipe
    /\ UNCHANGED <<storeVars, propVars, feedVars, listeners, closed, lastGate>>

\* --------------------------------------------------------------- behaviours

\* The feed and the component's lifecycle: every writer of the collection, every
\* date, both listener callbacks, mounting, closing and product changes.
NextFeed ==
    \/ \E p \in ProductIds, d \in Dates : ApplyStockChange(p, "in", d)
    \/ \E p \in ProductIds : WriteMalformed(p)
    \/ \E d \in productMovements : OtherClientDelete(d)
    \/ \E p \in ProductIds, o \in BOOLEAN : Mount(p, o)
    \/ Unmount
    \/ \E o \in BOOLEAN : SetIsOpen(o)
    \/ \E p \in ProductIds : ChangeProduct(p)
    \/ \E l \in listeners : SnapshotNext(l)
    \/ \E l \in listeners : SnapshotError(l)

SpecFeed == Init /\ [][NextFeed]_vars

\* The delete workflow: movements of both directions and both products, the
\* other client, snapshots, product changes, the rows, the prompt and the commit.
NextDelete ==
    \/ \E p \in ProductIds, t \in {"in", "out"} :
          nextId <= MaxStock /\ ApplyStockChange(p, t, Timestamp(MaxSeconds))
    \/ \E d \in productMovements : OtherClientDelete(d)
    \/ \E p \in ProductIds : ChangeProduct(p)
    \/ \E l \in listeners : SnapshotNext(l)
    \/ \E id \in MovementIds : handleSwipe(id)
    \/ \E m \in Range(movements) : handleDeleteClick(m)
    \/ PromptOnClose
    \/ \E a \in BOOLEAN : handleDelete(a)
    \/ \E i \in 1..MaxDeletes : CommitOk(i)
    \/ \E i \in 1..MaxDeletes : CommitFail(i)
    \/ \E i \in 1..MaxDeletes : Resume(i)

SpecDelete == Init /\ [][NextDelete]_vars

\* The delete workflow of one view on one product with several movements and
\* several handleDelete calls: the prompt stays rendered until a continuation
\* closes it, so onSuccess can come again while a commit is awaited.
NextDeleteWide ==
    \/ \E t \in {"in", "out"} : ApplyStockChange("p1", t, Timestamp(MaxSeconds))
    \/ \E l \in listeners : SnapshotNext(l)
    \/ \E m \in Range(movements) : handleDeleteClick(m)
    \/ PromptOnClose
    \/ \E a \in BOOLEAN : handleDeleteUpTo(a, MaxInFlight)
    \/ \E i \in 1..MaxInFlight : CommitOk(i)
    \/ \E i \in 1..MaxInFlight : CommitFail(i)
    \/ \E i \in 1..MaxInFlight : Resume(i)

SpecDeleteWide == Init /\ [][NextDeleteWide]_vars

\* Everything together.
Next == NextFeed \/ NextDelete

Spec == Init /\ [][Next]_vars


\* ------------------------------------------------------------------ the feed

Ids(docs) == {d.id : d \in docs}

\* C5: after every snapshot callback that does not throw, the published list is
\* ordered non-increasing by date.seconds, and every record whose timestamp is
\* missing comes after every record that has one.
C5_SortedMissingLast ==
    (mounted /\ lastEvent = "next") =>
        \A i, j \in 1..Len(movements) :
            i < j =>
                /\ (movements[i].date.has /\ movements[j].date.has)
                      => movements[i].date.seconds >= movements[j].date.seconds
                /\ ~(~movements[i].date.has /\ movements[j].date.has)

\* What the code does order by: the sort key, a missing date counting as 0.
SortedByKey ==
    (mounted /\ lastEvent = "next") =>
        \A i, j \in 1..Len(movements) :
            i < j => SortKey(movements[i]) >= SortKey(movements[j])

\* C6: the subscription is released whenever the view is closed or the product
\* id changes: no subscription is active while the view is closed, at most one
\* is active at any time, and it is for the current product id.
C6_SubscriptionReleased ==
    /\ ~(mounted /\ isOpen) => \A l \in listeners : l.dead
    /\ Cardinality(listeners) <= 1
    /\ \A l \in listeners : l.pid = product

\* What the code does keep: one listener per mounted instance, for its product.
OneListenerWhileMounted ==
    /\ ~mounted => listeners = {}
    /\ mounted => Cardinality(listeners) = 1
    /\ \A l \in listeners : l.pid = product

\* C7: loading is false exactly from the first snapshot or subscription error
\* on; a listener that errored leaves loading = false and an empty list, and no
\* exception reaches the caller.
C7_LoadingFalseAfterFirstEvent ==
    /\ mounted => (loading <=> firstEvent = "none")
    /\ (mounted /\ lastEvent = "error") => (~loading /\ movements = <<>>)
    /\ ~uncaught

\* The live query errored immediately on subscribe, documents being there.
C7_Witness ==
    /\ mounted
    /\ firstEvent = "error"
    /\ lastEvent = "error"
    /\ QueryDocs(productMovements, product) # {}
    /\ ~loading

\* The list part of C8: once the view is open again on the data set it was
\* closed on, a snapshot of that data publishes the list published before.
ReopenSameList ==
    (/\ closed.phase = "reopened"
     /\ mounted /\ isOpen
     /\ lastEvent = "next"
     /\ lastSnap = closed.data
     /\ QueryDocs(productMovements, product) = closed.data)
        => movements = closed.list

\* C8: closing and reopening the view for the same product, the data set being
\* unchanged, re-subscribes and publishes a list identical to the one published
\* before closing.
C8_ReopenResubscribesSameList ==
    /\ (closed.phase = "reopened" /\ mounted /\ isOpen) => closed.resub
    /\ ReopenSameList

\* The view was closed and reopened and a snapshot of the same data came in.
ReopenWitness ==
    /\ closed.phase = "reopened"
    /\ closed.resub
    /\ mounted /\ isOpen
    /\ lastEvent = "next"
    /\ lastSnap = closed.data
    /\ Len(closed.list) >= 2
    /\ movements = closed.list

\* C9: after each snapshot callback that does not throw, the published list holds
\* exactly the records of that snapshot, each once.
C9_ListIsLatestSnapshot ==
    (mounted /\ lastEvent = "next") =>
        /\ Len(movements) = Cardinality(lastSnap)
        /\ Range(movements) = {Normalize(d) : d \in lastSnap}

\* A snapshot replaced a list (the one shown when the view was closed by isOpen,
\* the instance staying mounted) that held a record the snapshot does not hold.
C9_Witness ==
    /\ mounted
    /\ lastEvent = "next"
    /\ lastSnap # {}
    /\ closed.phase = "reopened"
    /\ ~closed.resub
    /\ \E m \in Range(closed.list) : m.id \notin Ids(lastSnap)

\* C10: if the live query fails, or normalising one record of a snapshot throws,
\* the list becomes empty (the whole batch), loading is false, and the failure
\* is logged, not thrown.
C10_FailureDegradesToEmpty ==
    /\ (mounted /\ lastEvent \in {"threw", "error"}) =>
          /\ movements = <<>>
          /\ ~loading
          /\ feedLog # "none"
    /\ ~uncaught

\* A snapshot with one malformed record and one well-formed record was discarded.
C10_Witness ==
    /\ mounted
    /\ lastEvent = "threw"
    /\ \E d \in lastSnap : d.data.malformed
    /\ \E d \in lastSnap : ~d.data.malformed
    /\ movements = <<>>


\* ------------------------------------------------------ the delete workflow

\* Batch i leaves the await in this step with the given outcome.
Settles(i, outcome) ==
    /\ i \in DOMAIN batches
    /\ batches[i].state = "inflight"
    /\ batches'[i].state = outcome

StoreUnchanged == UNCHANGED <<products, productMovements>>

\* Write w is in effect in the store (ps, ms).
InEffect(w, ps, ms) ==
    IF w.op = "update"
    THEN /\ ps[w.ref].quantity = w.quantity
         /\ ps[w.ref].averagePurchasePrice = w.averagePurchasePrice
    ELSE w.mid \notin Ids(ms)

\* C1: after a delete of movement M whose commit succeeds, the quantity and the
\* averagePurchasePrice of M's product are M.previousQuantity and
\* M.previousAveragePrice, whatever M.type is, and M is in no later snapshot
\* (it is not in the collection any more).
C1_DeleteRestoresProduct ==
    /\ [][\A i \in DOMAIN batches :
            Settles(i, "committed") =>
                LET m == batches[i].mov
                IN  /\ products'[m.productId].quantity = m.previousQuantity
                    /\ products'[m.productId].averagePurchasePrice = m.previousAveragePrice
                    /\ m.id \notin Ids(productMovements')]_vars
    /\ [](\A i \in DOMAIN batches :
            batches[i].state = "committed" => batches[i].mov.id \notin Ids(productMovements))

\* What the code does restore: the product of the product prop at the call.
DeleteRestoresPropProduct ==
    [][\A i \in DOMAIN batches :
            Settles(i, "committed") =>
                LET m == batches[i].mov
                    p == batches[i].product
                IN  /\ products'[p].quantity = m.previousQuantity
                    /\ products'[p].averagePurchasePrice = m.previousAveragePrice
                    /\ m.id \notin Ids(productMovements')]_vars

\* C2: the product update and the movement deletion of one delete are applied
\* all-or-nothing: a step of the delete workflow either leaves the store as it
\* is or puts every write of one batch in effect, whatever snapshots and other
\* clients' writes come in between.
C2_AllOrNothing ==
    [][batches' # batches =>
          \/ StoreUnchanged
          \/ \E i \in DOMAIN batches :
                /\ Settles(i, "committed")
                /\ \A k \in 1..Len(batches[i].writes) :
                      InEffect(batches[i].writes[k], products', productMovements')]_vars

\* A batch is committed, a later snapshot no longer holds its movement, and the
\* continuation of handleDelete has not run yet.
C2_Witness ==
    \E i \in DOMAIN batches :
        /\ batches[i].state = "committed"
        /\ ~batches[i].resumed
        /\ lastEvent = "next"
        /\ batches[i].mov.id \notin Ids(lastSnap)
        /\ products[batches[i].product].quantity = batches[i].mov.previousQuantity
        /\ batches[i].mov.previousQuantity # batches[i].mov.newQuantity

\* C3: if the commit of a delete fails, the product's fields and the movement
\* record are unchanged in the store, exactly one error notification is emitted
\* for the attempt, and no success notification.
C3_FailedCommit ==
    /\ [][\A i \in DOMAIN batches : Settles(i, "rejected") => StoreUnchanged]_vars
    /\ [](\A i \in DOMAIN batches :
            batches[i].state = "rejected" =>
                /\ batches[i].success = 0
                /\ batches[i].error = IF batches[i].resumed THEN 1 ELSE 0)

\* A rejected delete has finished: one error notification, the record still there.
C3_Witness ==
    \E i \in DOMAIN batches :
        /\ batches[i].state = "rejected"
        /\ batches[i].resumed
        /\ batches[i].error = 1
        /\ batches[i].mov.id \in Ids(productMovements)

\* C4: if the gate is declined (handleDelete(false), or the prompt is closed), no
\* store write is issued, the movements list is unchanged and no notification
\* is emitted.
C4_DeclinedChangesNothing ==
    [][(PromptOnClose \/ handleDelete(FALSE)) =>
          /\ StoreUnchanged
          /\ UNCHANGED <<movements, batches>>
          /\ ~showPasswordPrompt'
          /\ selectedMovement' = NoMovement]_vars

\* The gate was declined for a selected movement: nothing was built or written.
C4_Witness ==
    /\ lastGate = "declined"
    /\ ~showPasswordPrompt
    /\ selectedMovement = NoMovement
    /\ batches = <<>>
    /\ movements # <<>>
    /\ Ids(Range(movements)) \subseteq Ids(productMovements)


\* The delete calls whose commit is not resolved yet.
InFlight == {i \in DOMAIN batches : batches[i].state = "inflight"}

\* C11: at most one delete transaction is in flight at any time: while a commit
\* started by handleDelete is unresolved, no second one can be started.
C11_OneDeleteInFlight == Cardinality(InFlight) <= 1


\* The continuation of delete call i runs in this step, its instance still there.
Finishes(i) ==
    /\ i \in DOMAIN batches
    /\ ~batches[i].resumed
    /\ batches'[i].resumed
    /\ ~batches[i].orphan

\* C12: whenever the delete workflow finishes (gate declined, commit succeeded,
\* commit failed), the pending selection is cleared and the prompt is closed;
\* after a commit attempt the revealed-row id is cleared too.
C12_WorkflowEndsClean ==
    [][/\ (PromptOnClose \/ handleDelete(FALSE)) =>
             (~showPasswordPrompt' /\ selectedMovement' = NoMovement)
       /\ \A i \in DOMAIN batches :
             Finishes(i) =>
                 /\ ~showPasswordPrompt'
                 /\ selectedMovement' = NoMovement
                 /\ swipedMovementId' = NoSwipe]_vars

\* A delete has finished after a failed commit and the view is clean.
C12_Witness ==
    \E i \in DOMAIN batches :
        /\ batches[i].resumed
        /\ batches[i].state = "rejected"
        /\ batches[i].error = 1
        /\ ~showPasswordPrompt
        /\ selectedMovement = NoMovement
        /\ swipedMovementId = NoSwipe

\* C13: a success notification is emitted only after the commit of a delete has
\* succeeded, exactly once per committed delete, and never for a delete whose
\* commit is unresolved or has failed.
C13_SuccessOnlyAfterCommit ==
    \A i \in DOMAIN batches :
        batches[i].success =
            IF batches[i].state = "committed" /\ batches[i].resumed THEN 1 ELSE 0

\* A committed delete has finished with its one success notification.
C13_Witness ==
    \E i \in DOMAIN batches :
        /\ batches[i].state = "committed"
        /\ batches[i].resumed
        /\ batches[i].success = 1
        /\ batches[i].error = 0
        /\ batches[i].mov.id \notin Ids(productMovements)


\* C14: at the moment a delete's batch is committed, the selected movement is
\* still in the collection (no other client and no earlier delete has removed
\* it since it was selected), so the product is never overwritten from the
\* snapshot of a movement that no longer exists.
C14_MovementPresentAtCommit ==
    [][\A i \in DOMAIN batches :
          Settles(i, "committed") => batches[i].mov.id \in Ids(productMovements)]_vars


\* The movement of product pid applied last: document ids are handed out in the
\* order in which the movements are applied.
MostRecent(pid, ms) ==
    CHOOSE d \in QueryDocs(ms, pid) : \A e \in QueryDocs(ms, pid) : e.id <= d.id

\* The product's fields are the new* values of its most recent movement.
ChainConsistent(pid, ps, ms) ==
    QueryDocs(ms, pid) # {} =>
        /\ ps[pid].quantity = MostRecent(pid, ms).data.newQuantity
        /\ ps[pid].averagePurchasePrice = MostRecent(pid, ms).data.newAveragePrice

\* C15: if before a delete the product's quantity and average price are the
\* newQuantity and newAveragePrice of its most recent movement, then after the
\* successful delete of any movement of the feed they are those of the most
\* recent remaining movement, or the deleted movement's previous* values when
\* none remains.
C15_ChainConsistencyPreserved ==
    [][\A i \in DOMAIN batches :
          LET m   == batches[i].mov
              pid == m.productId
          IN  ( /\ Settles(i, "committed")
                /\ m.id \in Ids(productMovements)
                /\ ChainConsistent(pid, products, productMovements) )
              => IF QueryDocs(productMovements', pid) = {}
                 THEN /\ products'[pid].quantity = m.previousQuantity
                      /\ products'[pid].averagePurchasePrice = m.previousAveragePrice
                 ELSE ChainConsistent(pid, products', productMovements')]_vars


\* C16: the product document a delete updates is always the product the
\* deleted movement belongs to, also when the product prop changes between the
\* click on a row's delete button and the authentication result.
C16_UpdatesMovementsProduct ==
    \A i \in DOMAIN batches :
        batches[i].state = "committed" =>
            \A k \in 1..Len(batches[i].writes) :
                batches[i].writes[k].op = "update"
                    => batches[i].writes[k].ref = batches[i].mov.productId


\* C17: whenever loading is false, every record of the published list belongs
\* to the current product id, also between a change of product id and the first
\* snapshot of the new subscription.
C17_ListBelongsToProduct ==
    (mounted /\ ~loading) => \A m \in Range(movements) : m.productId = product


\* The fields of a product document that a delete may change (lines 141-144).
RestoredFields == {"quantity", "averagePurchasePrice"}

\* C18: a delete changes only the quantity and the averagePurchasePrice of the
\* product document it updates and removes only the selected movement record:
\* every other field of that product, every other product document and every
\* other movement record is left as it was.
C18_DeleteFrame ==
    [][\A i \in DOMAIN batches :
          Settles(i, "committed") =>
              LET pid == batches[i].product
                  m   == batches[i].mov
              IN  /\ \A q \in ProductIds \ {pid} : products'[q] = products[q]
                  /\ DOMAIN products'[pid] = DOMAIN products[pid]
                  /\ \A f \in DOMAIN products[pid] \ RestoredFields :
                        products'[pid][f] = products[pid][f]
                  /\ productMovements' = {d \in productMovements : d.id # m.id}]_vars

\* A delete has committed and removed its movement while another movement
\* record is still in the collection, and the product has the restored values.
C18_Witness ==
    \E i \in DOMAIN batches :
        /\ batches[i].state = "committed"
        /\ batches[i].mov.id \notin Ids(productMovements)
        /\ \E d \in productMovements : d.id # batches[i].mov.id
        /\ products[batches[i].product].quantity = batches[i].mov.previousQuantity
        /\ products[batches[i].product].unit = "kg"

====
